---- MODULE Spec2Model ----
(***************************************************************************)
(* The checkpointed ETL pipeline of uk-legislation-rag                     *)
(* (src/etl/pipeline.py, run_etl_pipeline) over the SQL record store       *)
(* (src/etl/database.py) and the vector index (src/etl/vector_db.py), and  *)
(* the query entry point (src/cli/query.py, main) in SpecQuery.            *)
(*                                                                         *)
(* The record store and the vector index persist from one run to the next; *)
(* the model starts from an empty store and an empty index and runs the    *)
(* pipeline any number of times over the fixed list of links.  One action  *)
(* models one stage of the loop body; the outcome of every external call   *)
(* (page fetched, exception raised, commit refused) is chosen with \E.     *)
(***************************************************************************)
EXTENDS Integers, Sequences, FiniteSets, TLC

\* ---- bounds ------------------------------------------------------------
NumUrls == 2      \* length of the list get_legislation_links returns
NumIdents == 2    \* distinct legislation identifiers a page may carry
NumTexts == 2     \* distinct non-empty cleaned texts a page may yield
MaxDocs == 5      \* documents in the collection that is queried
NumDists == 2     \* distinct distances a document may have to the query

\* ---- values ------------------------------------------------------------
None == 0                       \* Python None, '' and a missing dict key
Texts == 0..NumTexts            \* 0 is the empty string
Idents == 0..NumIdents          \* 0 is "no identifier found"
Titles == 0..1                  \* 0 is "no title found"

\* get_legislation_links: a fixed list of distinct URLs
all_links == [k \in 1..NumUrls |-> k]

\* What a download can return: None, a page whose parsing raises, or a page
\* with its cleaned text and the title/identifier the extractor finds in it.
NoPage == [kind |-> "none", text |-> 0, title |-> 0, identifier |-> 0]
BadPage == [kind |-> "bad", text |-> 0, title |-> 0, identifier |-> 0]
GoodPages == [kind : {"ok"}, text : Texts, title : Titles, identifier : Idents]
Pages == GoodPages \cup {BadPage}

\* A metadata mapping; a key that is absent reads as None
EmptyMapping == [title |-> None, identifier |-> None]

Statuses == {"cleaned", "embedded", "failed_download", "failed_embedding",
             "failed_pipeline"}

VARIABLES
    db,                   \* committed rows of table legislations, by id
    index,                \* the Chroma collection: doc id -> document text
    pc,                   \* position of run_etl_pipeline
    i,                    \* 1-based position in all_links
    processed_count,
    existing_legislation, \* id of the row found by source_url, or None
    current_status,
    html_content,
    cleaned_text,
    metadata,
    legislation_entry,    \* id of the row insert_legislation returned
    embedding,            \* None, or 1 for a vector
    failures,             \* history: the external calls that failed in this item
    outcome,              \* history: how each link's item ended in this run
    embedded_before,      \* history: rows embedded when the run started
    init_error,           \* history: the initialisation step that failed
    legislation_collection, \* query: distance of each document to the query
    results,              \* query: the hits collection.query returned
    sorted_results,       \* query: the hits in the order they are printed
    query_pc              \* position of main in src/cli/query.py

locals == <<existing_legislation, current_status, html_content, cleaned_text,
            metadata, legislation_entry, embedding>>
stores == <<db, index>>
history == <<failures, outcome, embedded_before, init_error>>
vars == <<db, index, pc, i, processed_count, existing_legislation,
          current_status, html_content, cleaned_text, metadata,
          legislation_entry, embedding, failures, outcome,
          embedded_before, init_error, legislation_collection, results,
          sorted_results, query_pc>>
cli == <<legislation_collection, results, sorted_results, query_pc>>
etl == <<stores, pc, i, processed_count, locals, history>>

\* ---- src/etl/cleaner.py ------------------------------------------------
clean_legislation_html(page) == page.text

extract_metadata(page) == [title |-> page.title, identifier |-> page.identifier]

\* ---- src/etl/database.py -----------------------------------------------
\* session.query(Legislation).filter_by(source_url=url).first()
FindBySourceUrl(d, url) ==
    IF \E r \in DOMAIN d : d[r].source_url = url
    THEN CHOOSE r \in DOMAIN d : d[r].source_url = url
    ELSE None

\* session.query(Legislation).filter_by(identifier=ident).first()
FindByIdentifier(d, ident) ==
    IF \E r \in DOMAIN d : d[r].identifier = ident
    THEN CHOOSE r \in DOMAIN d : d[r].identifier = ident
    ELSE None

\* Mutant: only the identifier column is unique
UniqueViolation_IdentifierOnly(d, row) ==
    \E r \in DOMAIN d : d[r].identifier = row.identifier

\* The unique=True columns of Legislation: the INSERT is refused
UniqueViolation(d, row) ==
    \E r \in DOMAIN d : \/ d[r].identifier = row.identifier
                        \/ d[r].source_url = row.source_url

\* dict.get(key, default)
DictGet(data, key, default) == IF key \in DOMAIN data THEN data[key] ELSE default

\* The row insert_legislation builds from its data dictionary
NewRow(data) ==
    [title |-> data["title"],
     identifier |-> data["identifier"],
     source_url |-> data["source_url"],
     content |-> data["content"],
     metadata_json |-> DictGet(data, "metadata", EmptyMapping),
     status |-> "cleaned"]

SetStatus(d, id, s) == [d EXCEPT ![id].status = s]

\* Mutant: the row that has the identifier is overwritten with the new data
insert_legislation_Upsert(d, data) ==
    LET found == FindByIdentifier(d, data["identifier"])
    IN  IF found # None
        THEN [d EXCEPT ![found].title = data["title"],
                       ![found].content = data["content"]]
        ELSE Append(d, NewRow(data))

\* The table after insert_legislation has returned: the row that has the
\* identifier is returned without a write, otherwise a row is added
insert_legislation(d, data) ==
    IF FindByIdentifier(d, data["identifier"]) # None
    THEN d
    ELSE Append(d, NewRow(data))

\* ---- src/etl/embeddings.py ---------------------------------------------
\* generate_embedding returns None for an empty text without calling the model
EmbeddingIsNone(text) == text = 0

\* ---- src/etl/vector_db.py ----------------------------------------------
\* collection.add under str(legislation_id); an id already in the collection
\* keeps its document
CollectionAdd(idx, id, text) ==
    IF id \in DOMAIN idx THEN idx ELSE idx @@ (id :> text)

\* ---- src/etl/pipeline.py -----------------------------------------------
data_to_db(md, url, text) ==
    [title |-> md.title, identifier |-> md.identifier, source_url |-> url,
     content |-> text, metadata_json |-> md]

\* Mutant: any row found for the link is skipped and counted
AlreadyProcessed_AnyRow(d, found) == found # None

\* Line 62: existing_legislation and existing_legislation.status == 'embedded'
AlreadyProcessed(d, found) == found # None /\ d[found].status = "embedded"

\* Line 68
StartStatus(d, found) == IF found # None THEN d[found].status ELSE "new"

\* Mutant: the download stage runs for every row that is not embedded
ShouldDownload_Unfinished(status) == status # "embedded"

\* Line 74
ShouldDownload(status) == status = "new" \/ status = "failed_download"

\* Mutant: only the title is required
MissingEssential_TitleOnly(md) == md.title = None

\* Line 115: not metadata.get('title') or not metadata.get('identifier')
MissingEssential(md) == md.title = None \/ md.identifier = None

\* Mutant: only a link without a row is embedded
ShouldEmbed_OnlyNew(status) == status = "new"

\* Line 143
ShouldEmbed(status) == status # "embedded"

ResetLocals ==
    /\ existing_legislation' = None
    /\ current_status' = "new"
    /\ html_content' = NoPage
    /\ cleaned_text' = 0
    /\ metadata' = EmptyMapping
    /\ legislation_entry' = None
    /\ embedding' = None

\* The query entry point has not been started
QueryIdle ==
    /\ legislation_collection = <<>>
    /\ results = <<>>
    /\ sorted_results = <<>>
    /\ query_pc = "idle"

\* run_etl_pipeline has not been started, over a given record store
PipelineIdle(rows) ==
    /\ db = rows
    /\ index = <<>>
    /\ pc = "idle"
    /\ i = 1
    /\ processed_count = 0
    /\ existing_legislation = None
    /\ current_status = "new"
    /\ html_content = NoPage
    /\ cleaned_text = 0
    /\ metadata = EmptyMapping
    /\ legislation_entry = None
    /\ embedding = None
    /\ failures = {}
    /\ outcome = [k \in 1..NumUrls |-> "pending"]
    /\ embedded_before = <<>>
    /\ init_error = "none"

\* The state before the first run, over a given record store
InitWith(rows) == PipelineIdle(rows) /\ QueryIdle

\* A new deployment: empty record store, empty collection
Init == InitWith(<<>>)

\* The record store outlives the pipeline and its status column is a free
\* string: a store that already holds a row marked failed_download
SeededRow ==
    [title |-> 1, identifier |-> 1, source_url |-> all_links[1], content |-> 1,
     metadata_json |-> EmptyMapping, status |-> "failed_download"]

InitSeeded == InitWith(<<>>) \/ InitWith(<<SeededRow>>)

RunEnded == pc \in {"idle", "init_failed", "done", "aborted"}

\* Lines 26-37: the calls of the initialisation, in order; each may raise,
\* and load_embedding_model may also return no model
InitSteps == {"engine", "create_tables", "session", "chroma_client",
              "collection", "model_raises", "model_none"}

\* Mutant: the result of load_embedding_model is not tested
AfterInit_ModelUnchecked(failed) ==
    IF failed \in {"none", "model_none"} THEN "lookup" ELSE "init_failed"

\* Lines 34-40: return when the model is missing or a step raised
AfterInit(failed) == IF failed = "none" THEN "lookup" ELSE "init_failed"

\* Lines 25-54: engine, tables, session, Chroma client and collection, model
Initialise ==
    /\ RunEnded
    /\ \E failed \in InitSteps \cup {"none"} :
          /\ pc' = AfterInit(failed)
          /\ init_error' = failed
    /\ i' = 1
    /\ processed_count' = 0
    /\ ResetLocals
    /\ failures' = {}
    /\ outcome' = [k \in 1..NumUrls |-> "pending"]
    /\ embedded_before' =
          [r \in {q \in DOMAIN db : db[q].status = "embedded"} |-> db[r]]
    /\ UNCHANGED <<stores, cli>>

\* Lines 56-69: the lookup by source_url and the skip of an embedded row.
\* The query is outside the try block: if it raises, the run ends there.
Lookup ==
    /\ pc = "lookup"
    /\ i <= NumUrls
    /\ \E ok \in BOOLEAN :
          IF ~ok
          THEN /\ pc' = "aborted"
               /\ failures' = failures \cup {"lookup_raised"}
               /\ UNCHANGED <<i, processed_count, locals, outcome>>
          ELSE LET found == FindBySourceUrl(db, all_links[i]) IN
               IF AlreadyProcessed(db, found)
               THEN /\ processed_count' = processed_count + 1
                    /\ outcome' = [outcome EXCEPT ![i] = "already_embedded"]
                    /\ i' = i + 1
                    /\ pc' = "lookup"
                    /\ UNCHANGED <<locals, failures>>
               ELSE /\ existing_legislation' = found
                    /\ current_status' = StartStatus(db, found)
                    /\ pc' = "download"
                    /\ UNCHANGED <<i, processed_count, outcome, failures,
                                   html_content, cleaned_text, metadata,
                                   legislation_entry, embedding>>
    /\ UNCHANGED <<stores, embedded_before,
                   init_error, cli>>

\* Mutant: no finally clause; control returns to the head of the loop
AfterTry_NoFinally == "lookup"

\* Lines 186-188: however the try block is left (continue, end of the body,
\* handled exception), the finally clause runs next
AfterTry == "sleep"

\* An exception leaves the try block: control goes to the except clause
Raise(what) ==
    /\ pc' = "handler"
    /\ failures' = failures \cup {what}

\* Lines 72-95: download, or re-download on resume; a failed first download
\* is recorded only on a row that already exists
Download ==
    /\ pc = "download"
    /\ \E page \in Pages \cup {NoPage}, exc \in BOOLEAN, commit_ok \in BOOLEAN :
          IF exc
          THEN /\ Raise("download_raised")
               /\ UNCHANGED <<db, html_content, outcome>>
          ELSE IF page = NoPage
          THEN IF /\ ShouldDownload(current_status)
                  /\ existing_legislation # None
               THEN IF commit_ok
                    THEN /\ db' = SetStatus(db, existing_legislation,
                                            "failed_download")
                         /\ pc' = AfterTry
                         /\ failures' = failures \cup {"download_none"}
                         /\ outcome' = [outcome EXCEPT ![i] = "download_failed"]
                         /\ UNCHANGED html_content
                    ELSE /\ pc' = "handler"
                         /\ failures' = {"download_none", "commit_raised"}
                         /\ UNCHANGED <<db, html_content, outcome>>
               ELSE /\ pc' = AfterTry
                    /\ failures' = failures \cup {"download_none"}
                    /\ outcome' = [outcome EXCEPT ![i] = "download_failed"]
                    /\ UNCHANGED <<db, html_content>>
          ELSE /\ html_content' = page
               /\ pc' = "extract"
               /\ UNCHANGED <<db, outcome, failures>>
    /\ UNCHANGED <<index, i, processed_count, existing_legislation,
                   current_status, cleaned_text, metadata, legislation_entry,
                   embedding, embedded_before,
                   init_error, cli>>

\* Lines 97-117: clean, extract, and skip when title or identifier is missing
Extract ==
    /\ pc = "extract"
    /\ IF html_content.kind = "bad"
       THEN /\ Raise("extract_raised")
            /\ UNCHANGED <<cleaned_text, metadata, outcome>>
       ELSE /\ cleaned_text' = clean_legislation_html(html_content)
            /\ metadata' = extract_metadata(html_content)
            /\ IF MissingEssential(extract_metadata(html_content))
               THEN /\ pc' = AfterTry
                    /\ failures' = failures \cup {"metadata_missing"}
                    /\ outcome' = [outcome EXCEPT ![i] = "missing_metadata"]
               ELSE /\ pc' = "store"
                    /\ UNCHANGED <<outcome, failures>>
    /\ UNCHANGED <<stores, i, processed_count, existing_legislation,
                   current_status, html_content, legislation_entry, embedding,
                   embedded_before,
                   init_error, cli>>

\* Lines 119-140 with insert_legislation: the row with the identifier is
\* returned as it is, or a new row is inserted and committed; then the status
\* is set to cleaned and committed
Store ==
    /\ pc = "store"
    /\ \E fail \in {"none", "query", "insert_commit", "cleaned_commit"} :
          LET data == data_to_db(metadata, all_links[i], cleaned_text)
              found == FindByIdentifier(db, data["identifier"])
              row == NewRow(data)
              id == Len(db) + 1
          IN  IF fail = "query"
              THEN /\ Raise("query_raised")
                   /\ UNCHANGED <<db, legislation_entry>>
              ELSE IF found # None
              THEN /\ legislation_entry' = found
                   /\ IF fail = "cleaned_commit"
                      THEN /\ Raise("commit_raised")
                           /\ UNCHANGED db
                      ELSE /\ db' = SetStatus(insert_legislation(db, data),
                                              found, "cleaned")
                           /\ pc' = "embed"
                           /\ UNCHANGED failures
              ELSE IF fail = "insert_commit" \/ UniqueViolation(db, row)
              THEN /\ Raise("insert_refused")
                   /\ UNCHANGED <<db, legislation_entry>>
              ELSE /\ legislation_entry' = id
                   /\ IF fail = "cleaned_commit"
                      THEN /\ db' = insert_legislation(db, data)
                           /\ Raise("commit_raised")
                      ELSE /\ db' = SetStatus(insert_legislation(db, data),
                                              id, "cleaned")
                           /\ pc' = "embed"
                           /\ UNCHANGED failures
    /\ UNCHANGED <<index, i, processed_count, existing_legislation,
                   current_status, html_content, cleaned_text, metadata,
                   embedding, outcome, embedded_before,
                   init_error, cli>>

\* Lines 142-151: the embedding; None marks the row failed_embedding
Embed ==
    /\ pc = "embed"
    /\ \E exc \in BOOLEAN, commit_ok \in BOOLEAN :
          IF ShouldEmbed(current_status)
          THEN IF EmbeddingIsNone(cleaned_text)
               THEN IF commit_ok
                    THEN /\ db' = SetStatus(db, legislation_entry,
                                            "failed_embedding")
                         /\ pc' = AfterTry
                         /\ failures' = failures \cup {"embedding_none"}
                         /\ outcome' = [outcome EXCEPT ![i] = "embed_failed"]
                         /\ UNCHANGED <<embedding, processed_count>>
                    ELSE /\ pc' = "handler"
                         /\ failures' = {"embedding_none", "commit_raised"}
                         /\ UNCHANGED <<db, embedding, outcome, processed_count>>
               ELSE IF exc
               THEN /\ Raise("embedding_raised")
                    /\ UNCHANGED <<db, embedding, outcome, processed_count>>
               ELSE /\ embedding' = 1
                    /\ pc' = "index"
                    /\ UNCHANGED <<db, outcome, failures, processed_count>>
          ELSE /\ processed_count' = processed_count + 1
               /\ pc' = AfterTry
               /\ outcome' = [outcome EXCEPT ![i] = "embedded"]
               /\ UNCHANGED <<db, embedding, failures>>
    /\ UNCHANGED <<index, i, existing_legislation, current_status,
                   html_content, cleaned_text, metadata, legislation_entry,
                   embedded_before,
                   init_error, cli>>

\* add_embedding_to_vectordb: an exception of collection.add is printed and
\* not re-raised
add_embedding_to_vectordb(idx, id, text, add_ok) ==
    IF add_ok THEN CollectionAdd(idx, id, text) ELSE idx

\* Lines 153-166: the index write, then status embedded and the count
Index ==
    /\ pc = "index"
    /\ \E add_ok \in BOOLEAN, commit_ok \in BOOLEAN :
          /\ index' = add_embedding_to_vectordb(index, legislation_entry,
                                                 cleaned_text, add_ok)
          /\ failures' = failures
                            \cup (IF add_ok THEN {} ELSE {"index_failed"})
                            \cup (IF commit_ok THEN {} ELSE {"commit_raised"})
          /\ IF commit_ok
             THEN /\ db' = SetStatus(db, legislation_entry, "embedded")
                  /\ processed_count' = processed_count + 1
                  /\ pc' = AfterTry
                  /\ outcome' = [outcome EXCEPT ![i] = "embedded"]
             ELSE /\ pc' = "handler"
                  /\ UNCHANGED <<db, processed_count, outcome>>
    /\ UNCHANGED <<i, locals, embedded_before,
                   init_error, cli>>

\* Lines 173-184: rollback, then failed_pipeline on the row the lookup by
\* source_url found, if any. A commit that raises here leaves the function.
Handler ==
    /\ pc = "handler"
    /\ outcome' = [outcome EXCEPT ![i] = "raised"]
    /\ IF existing_legislation # None
       THEN \E commit_ok \in BOOLEAN :
               IF commit_ok
               THEN /\ db' = SetStatus(db, existing_legislation,
                                       "failed_pipeline")
                    /\ pc' = AfterTry
               ELSE /\ pc' = "aborted"
                    /\ UNCHANGED db
       ELSE /\ pc' = AfterTry
            /\ UNCHANGED db
    /\ failures' = IF pc' = "aborted" THEN failures \cup {"commit_raised"}
                   ELSE failures
    /\ UNCHANGED <<index, i, processed_count, locals, embedded_before,
                   init_error, cli>>

\* Lines 186-188: the finally clause, then the next link
Sleep ==
    /\ pc = "sleep"
    /\ i' = i + 1
    /\ pc' = "lookup"
    /\ ResetLocals
    /\ failures' = {}
    /\ UNCHANGED <<stores, processed_count, outcome, embedded_before,
                   init_error, cli>>

\* Lines 190-191: the list is exhausted
Finish ==
    /\ pc = "lookup"
    /\ i > NumUrls
    /\ pc' = "done"
    /\ UNCHANGED <<stores, i, processed_count, locals, history, cli>>

Next ==
    \/ Initialise
    \/ Lookup
    \/ Download
    \/ Extract
    \/ Store
    \/ Embed
    \/ Index
    \/ Handler
    \/ Sleep
    \/ Finish

Spec == Init /\ [][Next]_vars

SpecSeeded == InitSeeded /\ [][Next]_vars

\* ---- src/cli/query.py ---------------------------------------------------
\* One invocation of the query entry point over a collection of up to MaxDocs
\* documents.  legislation_collection[d] is the distance of document d to the
\* embedding of the query string.
n_results == 4

Dists == 1..NumDists
Collections == UNION {[1..n -> Dists] : n \in 0..MaxDocs}

Min(a, b) == IF a < b THEN a ELSE b

\* collection.query(n_results=k): the k nearest documents, or all of them
\* when the collection holds fewer, each with its distance.  Nothing is
\* assumed about the order of the list.
CollectionQuery(coll, k) ==
    LET n == Min(k, Len(coll))
        nearest(g) ==
            /\ \A p, q \in 1..n : p # q => g[p] # g[q]
            /\ \A d \in DOMAIN coll :
                  (\A p \in 1..n : g[p] # d) =>
                      \A p \in 1..n : coll[g[p]] <= coll[d]
    IN  { [p \in 1..n |-> [id |-> g[p], distance |-> coll[g[p]]]] :
            g \in {h \in [1..n -> DOMAIN coll] : nearest(h)} }

\* sorted() is stable: a hit goes after the hits that are not farther
RECURSIVE InsertByDistance(_, _)
InsertByDistance(s, x) ==
    IF s = <<>> THEN <<x>>
    ELSE IF s[Len(s)].distance <= x.distance THEN Append(s, x)
    ELSE Append(InsertByDistance(SubSeq(s, 1, Len(s) - 1), x), s[Len(s)])

\* Mutant: the hits are printed in the order the index returned them
sorted_by_distance_AsReturned(seq) == seq

\* Lines 57-64: sorted(..., key=lambda x: x['distance'])
RECURSIVE sorted_by_distance(_)
sorted_by_distance(seq) ==
    IF seq = <<>> THEN <<>>
    ELSE InsertByDistance(sorted_by_distance(SubSeq(seq, 1, Len(seq) - 1)),
                          seq[Len(seq)])

InitQuery ==
    /\ PipelineIdle(<<>>)
    /\ legislation_collection \in Collections
    /\ results = <<>>
    /\ sorted_results = <<>>
    /\ query_pc = "start"

\* Lines 20-45: model, collection, session, the embedding of the query
\* string (sys.exit(1) without a model or an embedding), then the query
QueryIndex ==
    /\ query_pc = "start"
    /\ \E ok \in BOOLEAN :
          IF ok
          THEN /\ results' \in CollectionQuery(legislation_collection, n_results)
               /\ query_pc' = "queried"
          ELSE /\ query_pc' = "exited"
               /\ UNCHANGED results
    /\ UNCHANGED <<etl, legislation_collection, sorted_results>>

\* Lines 47-83: "No results found", or the hits sorted and printed
PrintResults ==
    /\ query_pc = "queried"
    /\ sorted_results' = IF results = <<>> THEN <<>>
                         ELSE sorted_by_distance(results)
    /\ query_pc' = "printed"
    /\ UNCHANGED <<etl, legislation_collection, results>>

NextQuery == QueryIndex \/ PrintResults

SpecQuery == InitQuery /\ [][NextQuery]_vars

\* ---- properties ---------------------------------------------------------
RowOfLink(k) == FindBySourceUrl(db, all_links[k])
LinkOfUrl(url) == CHOOSE k \in 1..NumUrls : all_links[k] = url
ItemEnded == pc = "sleep"
Counted == {"already_embedded", "embedded"}

\* C1: a row that is embedded when a run starts is still embedded, with the
\* same content, when the run finishes, and its link was counted as processed
\* (as the already-embedded skip), whatever happens to the other links.
C1_EmbeddedRowsUntouched ==
    pc = "done" =>
        \A r \in DOMAIN embedded_before :
            /\ db[r].status = "embedded"
            /\ db[r].content = embedded_before[r].content
            /\ outcome[LinkOfUrl(db[r].source_url)] = "already_embedded"

\* C2: a step in which the download of the current link returns nothing
\* leaves a row for that link with status failed_download, and creates or
\* changes no row that is cleaned or embedded.
C2_FetchFailureRecorded ==
    [][(pc = "download" /\ pc' = "sleep") =>
          /\ FindBySourceUrl(db', all_links[i]) # None
          /\ db'[FindBySourceUrl(db', all_links[i])].status = "failed_download"
          /\ \A r \in DOMAIN db' :
                db'[r].status \in {"cleaned", "embedded"} =>
                    r \in DOMAIN db /\ db'[r] = db[r]]_vars

\* C3: no two rows of the record store share an identifier, and no two share
\* a source URL.
C3_KeysUnique ==
    \A r, q \in DOMAIN db :
        r # q => /\ db[r].identifier # db[q].identifier
                 /\ db[r].source_url # db[q].source_url

\* C3 witness: two links whose pages carried the same identifier were both
\* taken through the store stage to embedded, and the store holds one row.
C3_Witness ==
    /\ pc = "done"
    /\ NumUrls >= 2
    /\ outcome[1] = "embedded"
    /\ outcome[2] = "embedded"
    /\ Len(db) = 1

EmbedFailedItemEnded ==
    ItemEnded /\ failures \in {{"embedding_none"}, {"embedding_raised"}}

RowsKeepFields ==
    /\ DOMAIN db' = DOMAIN db
    /\ \A r \in DOMAIN db :
          [db'[r] EXCEPT !.status = "x"] = [db[r] EXCEPT !.status = "x"]

\* C4: when the embedding of an item fails after the store stage committed
\* (generate_embedding returns None or raises), the item ends with the row at
\* failed_embedding, and no step of the embed stage or of the error handler
\* changes a row's title, identifier, source URL, content or metadata.
C4_EmbedFailureMarksFailedEmbedding ==
    /\ [](EmbedFailedItemEnded =>
             db[legislation_entry].status = "failed_embedding")
    /\ [][(pc \in {"embed", "handler"}) => RowsKeepFields]_vars

\* C5: a finished run in which exactly one item raised an exception and all
\* the others were counted, every link having a row of its own in the store,
\* reports NumUrls - 1 processed and leaves the row of the failing link at
\* failed_pipeline and the row of every other link at embedded.
C5_OneFailureIsolated ==
    ( /\ pc = "done"
      /\ \E k \in 1..NumUrls :
            /\ outcome[k] = "raised"
            /\ \A j \in 1..NumUrls \ {k} : outcome[j] \in Counted
      /\ \A k \in 1..NumUrls : RowOfLink(k) # None )
    => /\ processed_count = NumUrls - 1
       /\ \A k \in 1..NumUrls :
             db[RowOfLink(k)].status =
                IF outcome[k] = "raised" THEN "failed_pipeline" ELSE "embedded"

\* C6: once initialisation has succeeded no exception of an external call
\* ends the loop: the run never leaves the list before its end.
C6_LoopNeverAborts == pc # "aborted"

\* C7: when a run finishes, every link has a row that is embedded or in one
\* of the failed statuses, or its item was skipped for missing metadata.
C7_RunPostcondition ==
    pc = "done" =>
        \A k \in 1..NumUrls :
            \/ outcome[k] = "missing_metadata"
            \/ /\ RowOfLink(k) # None
               /\ db[RowOfLink(k)].status \in
                     {"embedded", "failed_download", "failed_embedding",
                      "failed_pipeline"}

SkipsEmbedded ==
    /\ pc = "lookup"
    /\ i <= NumUrls
    /\ pc' # "aborted"
    /\ RowOfLink(i) # None
    /\ db[RowOfLink(i)].status = "embedded"

SetsEmbedded ==
    \E r \in DOMAIN db' :
        /\ db'[r].status = "embedded"
        /\ r \in DOMAIN db => db[r].status # "embedded"

\* C8: processed_count starts a run at 0 and grows by one in exactly the
\* steps that skip a link whose row is already embedded or that set a row to
\* embedded; no other step changes it.
C8_CountIsEmbeddedItems ==
    [][IF RunEnded
       THEN processed_count' = 0
       ELSE processed_count' =
               processed_count + IF SkipsEmbedded \/ SetsEmbedded THEN 1 ELSE 0
      ]_vars

\* C8 witness: a finished run that counted one link by the skip and one by
\* embedding it.
C8_Witness ==
    /\ pc = "done"
    /\ processed_count = 2
    /\ \E k, j \in 1..NumUrls :
          outcome[k] = "already_embedded" /\ outcome[j] = "embedded"

\* C9: an item whose index write failed does not leave its row embedded: the
\* row is marked failed_pipeline.
C9_IndexFailureMarksFailedPipeline ==
    (ItemEnded /\ failures = {"index_failed"})
        => db[legislation_entry].status = "failed_pipeline"

Resumable == {"cleaned", "failed_download", "failed_embedding",
              "failed_pipeline"}

\* C10: an item that resumes a row left at cleaned or at a failed status, in
\* which no external call fails and the page carries a title and the row's
\* identifier, ends with the row embedded.
C10_RetryReachesEmbedded ==
    ( /\ ItemEnded
      /\ existing_legislation # None
      /\ current_status \in Resumable
      /\ failures = {}
      /\ html_content.title # None
      /\ html_content.identifier = db[existing_legislation].identifier )
    => db[existing_legislation].status = "embedded"

\* C10 witness: a row left at failed_download is resumed and ends embedded.
C10_Witness ==
    /\ ItemEnded
    /\ existing_legislation # None
    /\ current_status = "failed_download"
    /\ failures = {}
    /\ html_content.identifier = db[existing_legislation].identifier
    /\ db[existing_legislation].status = "embedded"

\* C11: in every reachable record store every row has non-empty content,
\* whatever cleaned text the extractor returns, the empty string included
C11_ContentNonEmpty ==
    \A r \in DOMAIN db : db[r].content # 0

\* The run of a failed initialisation has looked up, fetched and counted nothing
InitFailedNoItem ==
    init_error # "none" =>
        /\ pc = "init_failed"
        /\ processed_count = 0
        /\ \A k \in 1..NumUrls : outcome[k] = "pending"
        /\ existing_legislation = None
        /\ html_content = NoPage
        /\ legislation_entry = None

StoresUntouched == db' = db /\ index' = index

\* C12: when an initialisation step fails, by raising or by returning no
\* model, the run returns at once: no link is looked up or fetched, and no
\* step of that run writes the record store or the vector index
C12_InitFailureTouchesNothing ==
    /\ []InitFailedNoItem
    /\ [][(init_error' # "none") => StoresUntouched]_vars

\* C12 witness: a later run over a store that holds rows fails to load the model
C12_Witness ==
    /\ pc = "init_failed"
    /\ init_error = "model_none"
    /\ Len(db) > 0
    /\ DOMAIN index # {}

IsAscending(s) == \A p \in 1..(Len(s) - 1) : s[p].distance <= s[p + 1].distance

SameHits(a, b) ==
    /\ Len(a) = Len(b)
    /\ {a[p] : p \in DOMAIN a} = {b[p] : p \in DOMAIN b}

\* C13: the query entry point prints the hits of the index for k = 4 in
\* non-decreasing distance, and prints exactly min(4, size of the collection)
\* results, whatever the collection holds and in whatever order the index
\* returned its hits
C13_QuerySortedTopFour ==
    query_pc = "printed" =>
        /\ IsAscending(sorted_results)
        /\ Len(sorted_results) = Min(4, Len(legislation_collection))
        /\ SameHits(sorted_results, results)

\* C13 witness: more than four documents, hits returned out of order
C13_Witness ==
    /\ query_pc = "printed"
    /\ Len(legislation_collection) > 4
    /\ ~IsAscending(results)
    /\ Len(sorted_results) = 4

\* The page in hand parses, and has no title or no identifier
MetadataMissing ==
    /\ html_content.kind = "ok"
    /\ html_content.title = 0 \/ html_content.identifier = 0

Untouched == StoresUntouched /\ processed_count' = processed_count

SkipWritesNothing ==
    /\ (pc = "extract" /\ MetadataMissing) => (pc' = "sleep" /\ Untouched)
    /\ (pc' \in {"download", "extract"}) => Untouched

\* C14: an item whose extracted metadata lacks a title or an identifier ends
\* at the extraction step with every row, the set of rows, the vector index
\* and the count as they were; the steps of the item before the extraction
\* (lookup, download) write nothing either
C14_MissingMetadataWritesNothing == [][SkipWritesNothing]_vars

\* C14 witness: the link already has a row, the index holds a document, and
\* the page fetched on resumption has no title or no identifier
C14_Witness ==
    /\ ItemEnded
    /\ failures = {"metadata_missing"}
    /\ existing_legislation # None
    /\ DOMAIN index # {}

\* The store stage runs for an identifier that a row already has
StoreFindsRow ==
    /\ pc = "store"
    /\ FindByIdentifier(db, metadata.identifier) # None

ReturnedUnchanged ==
    LET found == FindByIdentifier(db, metadata.identifier)
    IN  /\ RowsKeepFields
        /\ \A r \in DOMAIN db : r # found => db'[r] = db[r]
        /\ pc' = "embed" => /\ legislation_entry' = found
                            /\ db'[found].status = "cleaned"

\* C15: when a row with the extracted identifier exists, the store stage
\* adds no row and changes no title, identifier, source URL, content or
\* metadata; the row found is the one returned, and only its status is set
\* to cleaned
C15_StoreKeepsExistingRow == [][StoreFindsRow => ReturnedUnchanged]_vars

\* C15 witness: the row returned keeps a content that differs from the text
\* just extracted
C15_Witness ==
    /\ pc = "embed"
    /\ legislation_entry # None
    /\ db[legislation_entry].content # cleaned_text
    /\ db[legislation_entry].status = "cleaned"

ItemStages == {"download", "extract", "store", "embed", "index", "handler"}

\* The step moves on to the next link
NextLink == i' = i + 1

\* C16 as stated: whatever the outcome of an item, the already-embedded skip
\* included, the pause comes between the item and the lookup of the next link
C16_PauseAfterEveryItem == [][NextLink => pc = "sleep"]_vars

PauseOrSkip ==
    /\ NextLink => (pc = "sleep" \/ SkipsEmbedded)
    /\ (pc \in ItemStages) => pc' \in ItemStages \cup {"sleep", "aborted"}

\* C16 amended: an item that is not skipped as already embedded leaves its
\* stages only through the pause (or by ending the run), whatever its
\* outcome; the next link is reached from the pause, or straight from the
\* lookup of a link whose row is embedded
C16_PauseUnlessSkipped == [][PauseOrSkip]_vars

\* C16 witness: a link was skipped without a pause, and the item after it
\* raised and is at the pause
C16_Witness ==
    /\ pc = "sleep"
    /\ i > 1
    /\ outcome[i - 1] = "already_embedded"
    /\ outcome[i] = "raised"

FailedDownloadOnlyRewritten ==
    \A r \in DOMAIN db' :
        db'[r].status = "failed_download" =>
            (r \in DOMAIN db /\ db[r].status = "failed_download")

WritesStoredContent ==
    \A id \in DOMAIN index' \ DOMAIN index :
        /\ id \in DOMAIN db
        /\ db[id].content # 0 => index'[id] = db[id].content

\* C18: every document an item adds to the vector index under the id of a
\* row is the content that row has in the record store at that moment, also
\* when the item resumes a row, or meets a row with its identifier, and the
\* text just extracted differs from the stored content
C18_IndexedTextIsStoredContent == [][WritesStoredContent]_vars

InsertsExtractedMetadata ==
    Len(db') = Len(db) + 1 => db'[Len(db')].metadata_json = metadata

\* C19: the row the store stage inserts carries, in its metadata field, the
\* whole mapping the extractor produced for the item, for every mapping that
\* has a title and an identifier
C19_MetadataStored == [][InsertsExtractedMetadata]_vars
====
